---- MODULE Spec2Model ----
(***************************************************************************)
(* Shape- and index-level model of stable_diffusion_tf/autoencoderKl.py:   *)
(* PaddedConv2D, AttentionBlock, ResnetBlock and the Encoder / Decoder     *)
(* keras.Sequential stacks.  A tensor shape is a sequence of dimension     *)
(* sizes (batch, height, width, channels); a failed framework shape        *)
(* validation is the value ShapeError.                                     *)
(***************************************************************************)
EXTENDS Integers, Sequences, FiniteSets, TLC

VARIABLES net, layers, idx, x, input, encoded_from, call, block

vars == <<net, layers, idx, x, input, encoded_from, call, block>>

\* ---------------------------------------------------------------- bounds
MaxBatch == 2
MaxSide == 24
MaxLatent == 3
MaxUnitSide == 4
MaxKernel == 3
MaxPadding == 2
MaxStride == 2
MaxAttnSide == 3
MaxAttnChannels == 2
MaxResChannels == 2

\* ------------------------------------------------------- framework values
\* Outcome of a layer whose shape validation raised.
ShapeError == <<>>

\* tfa.layers.GroupNormalization default number of groups.
Groups == 32

\* ------------------------------------------------------------ shape helpers
RECURSIVE Prod(_)
Prod(s) == IF Len(s) = 0 THEN 1 ELSE Head(s) * Prod(Tail(s))

\* Mutant: zeros are added before the first row and column only.
ZeroPadding2DLeading(padding, s) ==
    <<s[1], padding + s[2], padding + s[3], s[4]>>

\* keras.layers.ZeroPadding2D((padding, padding)): padding rows above and
\* below, padding columns left and right.
ZeroPadding2D(padding, s) ==
    <<s[1], padding + s[2] + padding, padding + s[3] + padding, s[4]>>

\* Output positions of a "valid" strided window of the given size along one
\* axis: the window starts at 0, stride, 2*stride, ... while it fits.
WindowStarts(size, kernel_size, stride) ==
    {i \in 0..(size - 1) : i % stride = 0 /\ i + kernel_size <= size}

\* Mutant: the convolution keeps the channel count of its input.
Conv2DKeepChannels(channels, kernel_size, stride, s) ==
    LET oh == Cardinality(WindowStarts(s[2], kernel_size, stride))
        ow == Cardinality(WindowStarts(s[3], kernel_size, stride))
    IN  IF oh = 0 \/ ow = 0 THEN ShapeError ELSE <<s[1], oh, ow, s[4]>>

\* keras.layers.Conv2D(channels, kernel_size, strides = (stride, stride)),
\* default padding "valid"; an empty output dimension is a shape error.
Conv2D(channels, kernel_size, stride, s) ==
    LET oh == Cardinality(WindowStarts(s[2], kernel_size, stride))
        ow == Cardinality(WindowStarts(s[3], kernel_size, stride))
    IN  IF oh = 0 \/ ow = 0 THEN ShapeError ELSE <<s[1], oh, ow, channels>>

\* tfa.layers.GroupNormalization over the channel axis: shape preserving,
\* rejects a channel count that the groups do not divide.
GroupNormalization(s) ==
    IF s = ShapeError THEN ShapeError
    ELSE IF s[Len(s)] < Groups \/ s[Len(s)] % Groups # 0 THEN ShapeError
    ELSE s

\* Broadcasting of one dimension pair in an elementwise addition.
BroadcastDim(a, b) == IF a = b THEN a ELSE IF a = 1 THEN b ELSE IF b = 1 THEN a ELSE 0

\* Shape of a + b for two tensors of equal rank.
Add(a, b) ==
    IF a = ShapeError \/ b = ShapeError THEN ShapeError
    ELSE IF Len(a) # Len(b) THEN ShapeError
    ELSE IF \E i \in 1..Len(a) : BroadcastDim(a[i], b[i]) = 0 THEN ShapeError
    ELSE [i \in 1..Len(a) |-> BroadcastDim(a[i], b[i])]

\* tf.reshape(t, target) where target may hold one -1.
Reshape(s, target) ==
    IF s = ShapeError THEN ShapeError
    ELSE LET known == Prod([i \in 1..Len(target) |-> IF target[i] = -1 THEN 1 ELSE target[i]])
             free == {i \in 1..Len(target) : target[i] = -1}
         IN  IF free = {}
             THEN IF known = Prod(s) THEN target ELSE ShapeError
             ELSE IF known = 0 \/ Prod(s) % known # 0 THEN ShapeError
             ELSE [i \in 1..Len(target) |-> IF target[i] = -1 THEN Prod(s) \div known ELSE target[i]]

\* keras.layers.Permute(dims): dims are 1-based and exclude the batch axis;
\* output axis i + 1 is input axis dims[i] + 1.
Permute(dims, s) ==
    IF s = ShapeError THEN ShapeError
    ELSE IF Len(dims) + 1 # Len(s) THEN ShapeError
    ELSE [i \in 1..Len(s) |-> IF i = 1 THEN s[1] ELSE s[dims[i - 1] + 1]]

\* a @ b for two rank-3 tensors (batched matrix product).
MatMul(a, b) ==
    IF a = ShapeError \/ b = ShapeError THEN ShapeError
    ELSE IF a[1] # b[1] \/ a[3] # b[2] THEN ShapeError
    ELSE <<a[1], a[2], b[3]>>

\* ------------------------------------------------------------ PaddedConv2D
PaddedConv2D(channels, kernel_size, padding, stride) ==
    [type |-> "PaddedConv2D", channels |-> channels, kernel_size |-> kernel_size,
     padding |-> padding, stride |-> stride]

\* Mutant: call skips self.padding2d.
PaddedConv2DCallNoPad(l, s) ==
    IF s = ShapeError THEN ShapeError
    ELSE Conv2D(l.channels, l.kernel_size, l.stride, s)

PaddedConv2DCall(l, s) ==
    IF s = ShapeError THEN ShapeError
    ELSE Conv2D(l.channels, l.kernel_size, l.stride, ZeroPadding2D(l.padding, s))

\* ---------------------------------------------------------- AttentionBlock
AttentionBlock(channels) ==
    [type |-> "AttentionBlock", channels |-> channels,
     q |-> PaddedConv2D(channels, 1, 0, 1), k |-> PaddedConv2D(channels, 1, 0, 1),
     v |-> PaddedConv2D(channels, 1, 0, 1), proj_out |-> PaddedConv2D(channels, 1, 0, 1)]

\* Mutant: the key is flattened position-major, without the Permute.
AttentionBlockTraceKeyRowMajor(l, s) ==
    LET h_  == GroupNormalization(s)
        q0  == PaddedConv2DCall(l.q, h_)
        k0  == PaddedConv2DCall(l.k, h_)
        v0  == PaddedConv2DCall(l.v, h_)
    IN  IF q0 = ShapeError
        THEN [q |-> ShapeError, k |-> ShapeError, w_ |-> ShapeError, v |-> ShapeError,
              h_ |-> ShapeError, out |-> ShapeError]
        ELSE LET h  == q0[2]
                 w  == q0[3]
                 c  == q0[4]
                 q  == Reshape(q0, <<-1, h * w, c>>)
                 k  == Reshape(k0, <<-1, h * w, c>>)
                 w_ == MatMul(q, k)
                 v  == Reshape(Permute(<<3, 1, 2>>, v0), <<-1, c, h * w>>)
                 wT == Permute(<<2, 1>>, w_)
                 h1 == MatMul(v, wT)
                 h2 == Permute(<<2, 1>>, h1)
                 h3 == Reshape(h2, <<-1, h, w, c>>)
             IN  [q |-> q, k |-> k, w_ |-> w_, v |-> v, h_ |-> h3,
                  out |-> Add(s, PaddedConv2DCall(l.proj_out, h3))]

\* Shapes of every intermediate of AttentionBlock.call, in program order.
AttentionBlockTrace(l, s) ==
    LET h_  == GroupNormalization(s)
        q0  == PaddedConv2DCall(l.q, h_)
        k0  == PaddedConv2DCall(l.k, h_)
        v0  == PaddedConv2DCall(l.v, h_)
    IN  IF q0 = ShapeError
        THEN [q |-> ShapeError, k |-> ShapeError, w_ |-> ShapeError, v |-> ShapeError,
              h_ |-> ShapeError, out |-> ShapeError]
        ELSE LET h  == q0[2]
                 w  == q0[3]
                 c  == q0[4]
                 q  == Reshape(q0, <<-1, h * w, c>>)
                 k  == Reshape(Permute(<<3, 1, 2>>, k0), <<-1, c, h * w>>)
                 w_ == MatMul(q, k)
                 v  == Reshape(Permute(<<3, 1, 2>>, v0), <<-1, c, h * w>>)
                 wT == Permute(<<2, 1>>, w_)
                 h1 == MatMul(v, wT)
                 h2 == Permute(<<2, 1>>, h1)
                 h3 == Reshape(h2, <<-1, h, w, c>>)
             IN  [q |-> q, k |-> k, w_ |-> w_, v |-> v, h_ |-> h3,
                  out |-> Add(s, PaddedConv2DCall(l.proj_out, h3))]

AttentionBlockCall(l, s) == AttentionBlockTrace(l, s).out

\* ------------------------------------------------------------- ResnetBlock
Identity == [type |-> "identity"]

ResnetBlock(in_channels, out_channels) ==
    [type |-> "ResnetBlock", in_channels |-> in_channels, out_channels |-> out_channels,
     conv1 |-> PaddedConv2D(out_channels, 3, 1, 1),
     conv2 |-> PaddedConv2D(out_channels, 3, 1, 1),
     nin_shortcut |-> IF in_channels # out_channels
                      THEN PaddedConv2D(out_channels, 1, 0, 1)
                      ELSE Identity]

NinShortcutCall(l, s) ==
    IF l.nin_shortcut.type = "identity" THEN s ELSE PaddedConv2DCall(l.nin_shortcut, s)

ResnetBlockCall(l, s) ==
    LET h1 == PaddedConv2DCall(l.conv1, GroupNormalization(s))
        h2 == PaddedConv2DCall(l.conv2, GroupNormalization(h1))
    IN  Add(NinShortcutCall(l, s), h2)

\* ------------------------------------------------------ remaining layers
UpSampling2D == [type |-> "UpSampling2D", size |-> 2]
GroupNorm == [type |-> "GroupNormalization"]
Swish == [type |-> "Activation"]
Scale == [type |-> "Lambda", keep |-> 0]
SliceScale == [type |-> "Lambda", keep |-> 4]

\* Mutant: only the height is upsampled.
UpSampling2DCallHeightOnly(l, s) == <<s[1], l.size * s[2], s[3], s[4]>>

\* keras.layers.UpSampling2D(size = (2, 2)).
UpSampling2DCall(l, s) == <<s[1], l.size * s[2], l.size * s[3], s[4]>>

\* Mutant: the Encoder's last layer scales without slicing.
LambdaCallNoSlice(l, s) == s

\* The two Lambda layers: x * constant keeps the shape, x[..., :4] keeps at
\* most the first 4 channels.
LambdaCall(l, s) ==
    IF l.keep = 0 THEN s
    ELSE <<s[1], s[2], s[3], IF s[4] < l.keep THEN s[4] ELSE l.keep>>

LayerCall(l, s) ==
    CASE l.type = "PaddedConv2D" -> PaddedConv2DCall(l, s)
      [] l.type = "ResnetBlock" -> ResnetBlockCall(l, s)
      [] l.type = "AttentionBlock" -> AttentionBlockCall(l, s)
      [] l.type = "UpSampling2D" -> UpSampling2DCall(l, s)
      [] l.type = "GroupNormalization" -> GroupNormalization(s)
      [] l.type = "Activation" -> s
      [] l.type = "Lambda" -> LambdaCall(l, s)

\* ----------------------------------------------------------------- stacks
\* Mutant: the post-quantisation 1x1 convolution widens to 512 channels.
DecoderLayersWide ==
    << Scale,
       PaddedConv2D(512, 1, 0, 1),
       PaddedConv2D(512, 3, 1, 1),
       ResnetBlock(512, 512),
       AttentionBlock(512),
       ResnetBlock(512, 512),
       ResnetBlock(512, 512),
       ResnetBlock(512, 512),
       ResnetBlock(512, 512),
       UpSampling2D,
       PaddedConv2D(512, 3, 1, 1),
       ResnetBlock(512, 512),
       ResnetBlock(512, 512),
       ResnetBlock(512, 512),
       UpSampling2D,
       PaddedConv2D(512, 3, 1, 1),
       ResnetBlock(512, 256),
       ResnetBlock(256, 256),
       ResnetBlock(256, 256),
       UpSampling2D,
       PaddedConv2D(256, 3, 1, 1),
       ResnetBlock(256, 128),
       ResnetBlock(128, 128),
       ResnetBlock(128, 128),
       GroupNorm,
       Swish,
       PaddedConv2D(3, 3, 1, 1) >>

DecoderLayers ==
    << Scale,
       PaddedConv2D(4, 1, 0, 1),
       PaddedConv2D(512, 3, 1, 1),
       ResnetBlock(512, 512),
       AttentionBlock(512),
       ResnetBlock(512, 512),
       ResnetBlock(512, 512),
       ResnetBlock(512, 512),
       ResnetBlock(512, 512),
       UpSampling2D,
       PaddedConv2D(512, 3, 1, 1),
       ResnetBlock(512, 512),
       ResnetBlock(512, 512),
       ResnetBlock(512, 512),
       UpSampling2D,
       PaddedConv2D(512, 3, 1, 1),
       ResnetBlock(512, 256),
       ResnetBlock(256, 256),
       ResnetBlock(256, 256),
       UpSampling2D,
       PaddedConv2D(256, 3, 1, 1),
       ResnetBlock(256, 128),
       ResnetBlock(128, 128),
       ResnetBlock(128, 128),
       GroupNorm,
       Swish,
       PaddedConv2D(3, 3, 1, 1) >>

\* Mutant: the third downsampling convolution has stride 1.
EncoderLayersTwoDown ==
    << PaddedConv2D(128, 3, 1, 1),
       ResnetBlock(128, 128),
       ResnetBlock(128, 128),
       PaddedConv2D(128, 3, 1, 2),
       ResnetBlock(128, 256),
       ResnetBlock(256, 256),
       PaddedConv2D(256, 3, 1, 2),
       ResnetBlock(256, 512),
       ResnetBlock(512, 512),
       PaddedConv2D(512, 3, 1, 1),
       ResnetBlock(512, 512),
       ResnetBlock(512, 512),
       ResnetBlock(512, 512),
       AttentionBlock(512),
       ResnetBlock(512, 512),
       GroupNorm,
       Swish,
       PaddedConv2D(8, 3, 1, 1),
       PaddedConv2D(8, 1, 0, 1),
       SliceScale >>

EncoderLayers ==
    << PaddedConv2D(128, 3, 1, 1),
       ResnetBlock(128, 128),
       ResnetBlock(128, 128),
       PaddedConv2D(128, 3, 1, 2),
       ResnetBlock(128, 256),
       ResnetBlock(256, 256),
       PaddedConv2D(256, 3, 1, 2),
       ResnetBlock(256, 512),
       ResnetBlock(512, 512),
       PaddedConv2D(512, 3, 1, 2),
       ResnetBlock(512, 512),
       ResnetBlock(512, 512),
       ResnetBlock(512, 512),
       AttentionBlock(512),
       ResnetBlock(512, 512),
       GroupNorm,
       Swish,
       PaddedConv2D(8, 3, 1, 1),
       PaddedConv2D(8, 1, 0, 1),
       SliceScale >>

\* ----------------------------------------------------------- tensor values
\* A tensor value is its shape and its elements in row-major order
\* (data[n + 1] is the element at flat offset n).
Tensor(shape, data) == [shape |-> shape, data |-> data]

ErrorTensor == Tensor(ShapeError, <<>>)

\* Flat row-major offset of the 0-based multi-index mi in a tensor of the
\* given shape.
RECURSIVE Flatten(_, _)
Flatten(mi, shape) ==
    IF Len(mi) = 0 THEN 0
    ELSE Flatten(SubSeq(mi, 1, Len(mi) - 1), SubSeq(shape, 1, Len(shape) - 1)) * shape[Len(shape)]
         + mi[Len(mi)]

\* 0-based multi-index of the flat offset n.
Unflatten(n, shape) ==
    [a \in 1..Len(shape) |-> (n \div Prod(SubSeq(shape, a + 1, Len(shape)))) % shape[a]]

\* tf.reshape: the row-major element order is kept, only the shape changes.
ReshapeT(t, target) ==
    IF Reshape(t.shape, target) = ShapeError THEN ErrorTensor
    ELSE Tensor(Reshape(t.shape, target), t.data)

\* keras.layers.Permute(dims) on values: the element at output index mi comes
\* from the input index whose axis dims[i] + 1 holds mi[i + 1].
PermuteT(dims, t) ==
    IF Permute(dims, t.shape) = ShapeError THEN ErrorTensor
    ELSE LET ns == Permute(dims, t.shape)
             perm == [a \in 1..Len(ns) |-> IF a = 1 THEN 1 ELSE dims[a - 1] + 1]
             src(mi) == [j \in 1..Len(ns) |-> mi[CHOOSE a \in 1..Len(ns) : perm[a] = j]]
         IN  Tensor(ns, [n \in 1..Prod(ns) |->
                            t.data[Flatten(src(Unflatten(n - 1, ns)), t.shape) + 1]])

\* a @ b on values: element (b, i, j) is the sum over k of a[b,i,k] * b[b,k,j],
\* kept as the set of its products <<a[b,i,k], b[b,k,j]>>.
MatMulT(a, b) ==
    IF MatMul(a.shape, b.shape) = ShapeError THEN ErrorTensor
    ELSE LET ns == MatMul(a.shape, b.shape)
             el(mi) == {<<a.data[Flatten(<<mi[1], mi[2], k>>, a.shape) + 1],
                          b.data[Flatten(<<mi[1], k, mi[3]>>, b.shape) + 1]>> :
                        k \in 0..(a.shape[3] - 1)}
         IN  Tensor(ns, [n \in 1..Prod(ns) |-> el(Unflatten(n - 1, ns))])

\* w_ * (c ** (-0.5)): every element is scaled by the same factor.
ScaleT(t, c) ==
    Tensor(t.shape, [n \in 1..Len(t.data) |-> [score |-> t.data[n], scale |-> c]])

\* keras.activations.softmax (axis = -1): every element is normalised by the
\* elements that share all of its indices but the last.
SoftmaxT(t) ==
    LET last == t.shape[Len(t.shape)]
        row(n) == {t.data[m] : m \in {m \in 1..Len(t.data) : (m - 1) \div last = (n - 1) \div last}}
    IN  Tensor(t.shape, [n \in 1..Len(t.data) |-> [num |-> t.data[n], den |-> row(n)]])

\* Mutant: the attended values are reshaped without the last Permute.
AttentionValuesNoTranspose(q0, k0, v0) ==
    LET h  == q0.shape[2]
        w  == q0.shape[3]
        c  == q0.shape[4]
        q  == ReshapeT(q0, <<-1, h * w, c>>)
        k  == ReshapeT(PermuteT(<<3, 1, 2>>, k0), <<-1, c, h * w>>)
        w_ == SoftmaxT(ScaleT(MatMulT(q, k), c))
        v  == ReshapeT(PermuteT(<<3, 1, 2>>, v0), <<-1, c, h * w>>)
        h1 == MatMulT(v, PermuteT(<<2, 1>>, w_))
    IN  ReshapeT(h1, <<-1, h, w, c>>)

\* The attention computation of AttentionBlock.call on the values q, k, v
\* of the three projections.
AttentionValues(q0, k0, v0) ==
    LET h  == q0.shape[2]
        w  == q0.shape[3]
        c  == q0.shape[4]
        q  == ReshapeT(q0, <<-1, h * w, c>>)
        k  == ReshapeT(PermuteT(<<3, 1, 2>>, k0), <<-1, c, h * w>>)
        w_ == SoftmaxT(ScaleT(MatMulT(q, k), c))
        v  == ReshapeT(PermuteT(<<3, 1, 2>>, v0), <<-1, c, h * w>>)
        h1 == MatMulT(v, PermuteT(<<2, 1>>, w_))
        h2 == PermuteT(<<2, 1>>, h1)
    IN  ReshapeT(h2, <<-1, h, w, c>>)

\* The tensor of a projection's outputs, one distinct element per index.
Elements(name, shape) ==
    Tensor(shape, [n \in 1..Prod(shape) |-> <<name>> \o Unflatten(n - 1, shape)])

\* Elementwise a + b on integer tensors, with broadcasting.
AddT(a, b) ==
    IF Add(a.shape, b.shape) = ShapeError THEN ErrorTensor
    ELSE LET ns == Add(a.shape, b.shape)
             at(t, mi) == t.data[Flatten([i \in 1..Len(ns) |->
                                            IF t.shape[i] = 1 THEN 0 ELSE mi[i]], t.shape) + 1]
         IN  Tensor(ns, [n \in 1..Prod(ns) |->
                            at(a, Unflatten(n - 1, ns)) + at(b, Unflatten(n - 1, ns))])

RECURSIVE Dot(_, _, _, _)
Dot(t, base, kernel, co) ==
    IF Len(kernel) = 0 THEN 0
    ELSE t.data[base + Len(kernel)] * kernel[Len(kernel)][co]
         + Dot(t, base, SubSeq(kernel, 1, Len(kernel) - 1), co)

\* A 1x1 stride-1 convolution on integer values: kernel[ci][co] weights and a
\* bias per output channel.
Conv1x1T(kernel, bias, t) ==
    LET ns == <<t.shape[1], t.shape[2], t.shape[3], Len(bias)>>
        el(mi) == Dot(t, Flatten(<<mi[1], mi[2], mi[3], 0>>, t.shape), kernel, mi[4] + 1)
                  + bias[mi[4] + 1]
    IN  Tensor(ns, [n \in 1..Prod(ns) |-> el(Unflatten(n - 1, ns))])

\* Mutant: call picks the shortcut from the channel count of its input.
ResnetBlockValuesByData(l, xt, ht, kernel, bias) ==
    [op |-> "ResnetBlock", x |-> xt, h |-> ht,
     shortcut |-> IF xt.shape[4] = ht.shape[4] THEN "identity" ELSE "PaddedConv2D",
     out |-> AddT(IF xt.shape[4] = ht.shape[4] THEN xt
                  ELSE Conv1x1T(kernel, bias, xt), ht)]

\* ResnetBlock.call on values: xt is the input, ht the result of the learned
\* branch conv2(swish(norm2(conv1(swish(norm1(x)))))), kernel and bias the
\* weights of the NinShortcut convolution.
ResnetBlockValues(l, xt, ht, kernel, bias) ==
    [op |-> "ResnetBlock", x |-> xt, h |-> ht, shortcut |-> l.nin_shortcut.type,
     out |-> AddT(IF l.nin_shortcut.type = "identity" THEN xt
                  ELSE Conv1x1T(kernel, bias, xt), ht)]

\* ------------------------------------------------------------------ state
NoCall == [op |-> "none"]
NoBlock == [type |-> "none"]

Init ==
    /\ net = "none"
    /\ layers = <<>>
    /\ idx = 0
    /\ x = ShapeError
    /\ input = ShapeError
    /\ encoded_from = ShapeError
    /\ call = NoCall
    /\ block = NoBlock

Idle == net = "none" /\ call = NoCall /\ block = NoBlock

\* Encoder()(image) on an image batch of shape (b, h, w, 3).
EncoderCall ==
    /\ Idle
    /\ \E b \in 1..MaxBatch, h \in 1..MaxSide, w \in 1..MaxSide :
          /\ x' = <<b, h, w, 3>>
          /\ input' = <<b, h, w, 3>>
    /\ net' = "Encoder"
    /\ layers' = EncoderLayers
    /\ idx' = 1
    /\ UNCHANGED <<encoded_from, call, block>>

\* Decoder()(latent) on a latent batch of shape (b, h, w, 4).
DecoderCall ==
    /\ Idle
    /\ \E b \in 1..MaxBatch, h \in 1..MaxLatent, w \in 1..MaxLatent :
          /\ x' = <<b, h, w, 4>>
          /\ input' = <<b, h, w, 4>>
    /\ net' = "Decoder"
    /\ layers' = DecoderLayers
    /\ idx' = 1
    /\ UNCHANGED <<encoded_from, call, block>>

\* keras.Sequential.call: the next layer of the stack consumes the output of
\* the previous one; a raised shape error ends the forward pass.
SequentialStep ==
    /\ net # "none"
    /\ idx <= Len(layers)
    /\ x # ShapeError
    /\ x' = LayerCall(layers[idx], x)
    /\ idx' = idx + 1
    /\ UNCHANGED <<net, layers, input, encoded_from, call, block>>

Finished == net # "none" /\ idx > Len(layers) /\ x # ShapeError

\* Decoder()(Encoder()(image)): the Encoder's result is the Decoder's input.
DecodeEncoded ==
    /\ net = "Encoder"
    /\ Finished
    /\ net' = "Decoder"
    /\ layers' = DecoderLayers
    /\ idx' = 1
    /\ x' = x
    /\ input' = x
    /\ encoded_from' = input
    /\ UNCHANGED <<call, block>>

Values == {-1, 0, 1}
Weights == {0, 1}

\* Integer tensors of shape (1,1,1,c).
Pixels(c) == {Tensor(<<1, 1, 1, c>>, d) : d \in [1..c -> Values]}

\* PaddedConv2D(channels, k, padding = p, stride = s)(t) for a tensor t of
\* shape (b, h, w, 3).
PaddedConv2DUnit ==
    /\ Idle
    /\ \E channels \in {4, 512}, k \in 1..MaxKernel, p \in 0..MaxPadding, s \in 1..MaxStride,
          b \in 1..MaxBatch, h \in 1..MaxUnitSide, w \in 1..MaxUnitSide :
          call' = [op |-> "PaddedConv2D", layer |-> PaddedConv2D(channels, k, p, s),
                   x |-> <<b, h, w, 3>>,
                   out |-> PaddedConv2DCall(PaddedConv2D(channels, k, p, s), <<b, h, w, 3>>)]
    /\ UNCHANGED <<net, layers, idx, x, input, encoded_from, block>>

\* AttentionBlock(channels)(t) for a tensor t of shape (b, h, w, xc).
AttentionBlockUnit ==
    /\ Idle
    /\ \E channels \in {Groups, 2 * Groups}, xc \in {Groups, 2 * Groups},
          b \in 1..MaxBatch, h \in 1..MaxUnitSide, w \in 1..MaxUnitSide :
          call' = [op |-> "AttentionBlock", layer |-> AttentionBlock(channels),
                   x |-> <<b, h, w, xc>>,
                   trace |-> AttentionBlockTrace(AttentionBlock(channels), <<b, h, w, xc>>)]
    /\ UNCHANGED <<net, layers, idx, x, input, encoded_from, block>>

\* The attention computation of AttentionBlock.call on the projections'
\* outputs for an input of shape (b, h, w, c).
AttentionValuesUnit ==
    /\ Idle
    /\ \E b \in 1..MaxBatch, h \in 1..MaxAttnSide, w \in 1..MaxAttnSide, c \in 1..MaxAttnChannels :
          call' = [op |-> "AttentionValues", x |-> <<b, h, w, c>>,
                   h_ |-> AttentionValues(Elements("q", <<b, h, w, c>>),
                                          Elements("k", <<b, h, w, c>>),
                                          Elements("v", <<b, h, w, c>>))]
    /\ UNCHANGED <<net, layers, idx, x, input, encoded_from, block>>

\* ResnetBlock(in_channels, out_channels): construction.
ResnetBlockInit ==
    /\ Idle
    /\ \E in_channels \in 1..MaxResChannels, out_channels \in 1..MaxResChannels :
          block' = ResnetBlock(in_channels, out_channels)
    /\ UNCHANGED <<net, layers, idx, x, input, encoded_from, call>>

\* ResnetBlock.call on the constructed block: the input xt has any channel
\* count, the learned branch ht has conv2's channel count, and the
\* NinShortcut convolution has constant weights kw and biases bw.
ResnetBlockUnit ==
    /\ block # NoBlock
    /\ call = NoCall
    /\ \E xc \in 1..MaxResChannels :
          \E xt \in Pixels(xc), ht \in Pixels(block.conv2.channels),
             kw \in Weights, bw \in Weights :
             call' = ResnetBlockValues(block, xt, ht,
                                       [ci \in 1..xc |-> [co \in 1..block.conv2.channels |-> kw]],
                                       [co \in 1..block.conv2.channels |-> bw])
    /\ UNCHANGED <<net, layers, idx, x, input, encoded_from, block>>

Next ==
    \/ EncoderCall
    \/ DecoderCall
    \/ SequentialStep
    \/ DecodeEncoded
    \/ PaddedConv2DUnit
    \/ AttentionBlockUnit
    \/ AttentionValuesUnit
    \/ ResnetBlockInit
    \/ ResnetBlockUnit

Spec == Init /\ [][Next]_vars

\* ------------------------------------------------------------- properties
Done == net # "none" /\ idx > Len(layers)

MultipleOf8(s) == s[2] % 8 = 0 /\ s[3] % 8 = 0

CeilDiv8(n) == (n + 7) \div 8

UpsBefore(i) == Cardinality({j \in 1..(i - 1) : layers[j].type = "UpSampling2D"})

RECURSIVE Pow2(_)
Pow2(n) == IF n = 0 THEN 1 ELSE 2 * Pow2(n - 1)

\* C1: an Encoder forward pass on (B,H,W,3) with H and W multiples of 8
\* raises no shape error and ends with the shape (B,H/8,W/8,4).
C1_EncoderShape ==
    (net = "Encoder" /\ MultipleOf8(input)) =>
        /\ x # ShapeError
        /\ Done => x = <<input[1], input[2] \div 8, input[3] \div 8, 4>>

C1_Witness ==
    net = "Encoder" /\ Done /\ input = <<2, 16, 8, 3>> /\ x = <<2, 2, 1, 4>>

\* C2: a Decoder forward pass on (B,H,W,4) raises no shape error, its spatial
\* size changes only at the three 2x upsamplings, and it ends with the shape
\* (B,8H,8W,3).
C2_DecoderShape ==
    net = "Decoder" =>
        /\ x # ShapeError
        /\ x[1] = input[1]
        /\ x[2] = input[2] * Pow2(UpsBefore(idx))
        /\ x[3] = input[3] * Pow2(UpsBefore(idx))
        /\ UpsBefore(Len(layers) + 1) = 3
        /\ Done => x = <<input[1], 8 * input[2], 8 * input[3], 3>>

C2_Witness ==
    net = "Decoder" /\ Done /\ input = <<2, 3, 1, 4>> /\ x = <<2, 24, 8, 3>>

\* C3: Decoder(Encoder(image)) for an image (B,H,W,3) with H and W multiples
\* of 8: the Encoder's result is accepted by the Decoder (4 channels, no
\* shape error) and the Decoder's result has exactly the image's shape.
C3_RoundTripShape ==
    (net = "Decoder" /\ encoded_from # ShapeError /\ MultipleOf8(encoded_from)) =>
        /\ input[4] = 4
        /\ x # ShapeError
        /\ Done => x = encoded_from

C3_Witness ==
    net = "Decoder" /\ Done /\ encoded_from = <<1, 8, 16, 3>> /\ x = <<1, 8, 16, 3>>

\* C4: in both stacks the tensor arriving at a ResnetBlock has the block's
\* declared in_channels and the tensor arriving at an AttentionBlock has the
\* block's channels, so an identity shortcut is added to a branch of the
\* same channel count.
C4_ChannelsMatch ==
    (net # "none" /\ idx <= Len(layers)) =>
        /\ x # ShapeError
        /\ layers[idx].type = "ResnetBlock" =>
              /\ x[4] = layers[idx].in_channels
              /\ layers[idx].nin_shortcut.type = "identity" =>
                    NinShortcutCall(layers[idx], x)[4] = layers[idx].conv2.channels
        /\ layers[idx].type = "AttentionBlock" => x[4] = layers[idx].channels

C4_Witness ==
    /\ net = "Decoder" /\ idx = 17 /\ layers[idx] = ResnetBlock(512, 256) /\ x[4] = 512

\* C5 as stated: an Encoder forward pass on an image whose height or width is
\* not a multiple of 8 never ends with a latent tensor.
C5_NonMultipleRaises ==
    (net = "Encoder" /\ ~MultipleOf8(input)) => ~(Done /\ x # ShapeError)

\* C5 amended: an Encoder forward pass on an image whose height or width is
\* not a multiple of 8 raises no shape error and ends with the shape
\* (B,ceil(H/8),ceil(W/8),4).
C5_NonMultipleRoundsUp ==
    (net = "Encoder" /\ ~MultipleOf8(input)) =>
        /\ x # ShapeError
        /\ Done => x = <<input[1], CeilDiv8(input[2]), CeilDiv8(input[3]), 4>>

C5_Witness ==
    net = "Encoder" /\ Done /\ input = <<1, 9, 16, 3>> /\ x = <<1, 2, 2, 4>>

C6_PaddedConvShape ==
    call.op = "PaddedConv2D" =>
        LET l  == call.layer
            oh == (call.x[2] + 2 * l.padding - l.kernel_size) \div l.stride + 1
            ow == (call.x[3] + 2 * l.padding - l.kernel_size) \div l.stride + 1
        IN  /\ call.out = IF oh >= 1 /\ ow >= 1 THEN <<call.x[1], oh, ow, l.channels>>
                          ELSE ShapeError
            /\ (l.padding = 1 /\ l.kernel_size = 3 /\ l.stride = 1) =>
                  call.out = <<call.x[1], call.x[2], call.x[3], l.channels>>
            /\ (l.padding = 0 /\ l.kernel_size = 1 /\ l.stride = 1) =>
                  call.out = <<call.x[1], call.x[2], call.x[3], l.channels>>

C6_Witness ==
    /\ call.op = "PaddedConv2D"
    /\ call.layer = PaddedConv2D(512, 3, 1, 2)
    /\ call.x = <<1, 3, 4, 3>>
    /\ call.out = <<1, 2, 2, 512>>

C7_State ==
    /\ block # NoBlock =>
          block.nin_shortcut = IF block.in_channels = block.out_channels THEN Identity
                               ELSE PaddedConv2D(block.out_channels, 1, 0, 1)
    /\ call.op = "ResnetBlock" =>
          /\ call.shortcut = IF block.in_channels = block.out_channels THEN "identity"
                             ELSE "PaddedConv2D"
          /\ (block.in_channels = block.out_channels /\ call.x.shape[4] = block.in_channels) =>
                /\ call.out.shape = call.x.shape
                /\ \A n \in 1..Len(call.x.data) :
                      call.out.data[n] = call.x.data[n] + call.h.data[n]
                /\ (\A n \in 1..Len(call.h.data) : call.h.data[n] = 0) => call.out = call.x
          /\ block.in_channels # block.out_channels =>
                call.out.shape = <<1, 1, 1, block.out_channels>>

\* C7: a ResnetBlock's shortcut is the identity when the declared in_channels
\* and out_channels are equal and a 1x1 convolution to out_channels otherwise;
\* a call uses the shortcut chosen at construction whatever the channel count
\* of its input and leaves the block unchanged; with in_channels equal to
\* out_channels the output is input + learned branch element by element, and
\* equals the input when the learned branch is zero.
C7_Shortcut == [](C7_State) /\ [][block # NoBlock => block' = block]_vars

C7_Witness ==
    /\ block = ResnetBlock(2, 2)
    /\ call.op = "ResnetBlock"
    /\ call.x.data = <<1, -1>>
    /\ call.h.data = <<0, 0>>
    /\ call.out.data = <<1, -1>>

Score(b, i, j, W, C) ==
    [score |-> {<< <<"q", b, i \div W, i % W, ch>>, <<"k", b, j \div W, j % W, ch>> >> :
                ch \in 0..(C - 1)},
     scale |-> C]

\* The softmax weight of key position j for query position i.
Weight(b, i, j, H, W, C) ==
    [num |-> Score(b, i, j, W, C), den |-> {Score(b, i, jj, W, C) : jj \in 0..(H * W - 1)}]

\* C9: with positions flattened as i = y*W + x, the attended value at
\* (b, y, x, c) is the sum over all key positions j of
\* softmax_j(q_i . k_j * C^(-1/2)) * v[j][c], for the query position
\* i = y*W + x; the result has the shape (B,H,W,C).
C9_AttentionAligned ==
    call.op = "AttentionValues" =>
        LET B == call.x[1]
            H == call.x[2]
            W == call.x[3]
            C == call.x[4]
        IN  /\ call.h_.shape = <<B, H, W, C>>
            /\ \A b \in 0..(B - 1), y \in 0..(H - 1), xx \in 0..(W - 1), c \in 0..(C - 1) :
                  call.h_.data[((b * H + y) * W + xx) * C + c + 1] =
                      {<< <<"v", b, j \div W, j % W, c>>, Weight(b, y * W + xx, j, H, W, C) >> :
                       j \in 0..(H * W - 1)}

C9_Witness ==
    /\ call.op = "AttentionValues"
    /\ call.x = <<2, 2, 3, 2>>
    /\ Len(call.h_.data) = 24

====
